---- MODULE Spec2Model ----
(***************************************************************************)
(* A model of the watchable-mount engine of the kata-containers agent      *)
(* (src/agent/src/watcher.rs): Storage (one watched source -> target       *)
(* mapping), SandboxStorages (the entries of one container), BindWatcher   *)
(* (the registry behind one mutex, the tmpfs bootstrap, the background     *)
(* poller and the teardown).                                               *)
(*                                                                         *)
(* Paths are sequences of components.  A source mount point is             *)
(* <<"src", d>>, its target <<"dest", d>> (as create_test_storage names    *)
(* them); the files below them carry natural numbers as names.  The        *)
(* component 0 is the empty component Path::join("") leaves behind (a      *)
(* trailing separator).                                                    *)
(***************************************************************************)
EXTENDS Integers, Sequences, FiniteSets, TLC

\* watcher.rs:27
MAX_ENTRIES_PER_STORAGE == 16

\* watcher.rs:30
MAX_SIZE_PER_WATCHABLE_MOUNT == 1024 * 1024

(***************************************************************************)
(* The configuration explored: the mount descriptors a caller may pass,    *)
(* which of their sources are directories, the container ids.              *)
(***************************************************************************)
Descs == {1, 2}
DirDescs == {1}
Cids == {"c1", "c2"}

SourcePath(d) == <<"src", d>>
TargetPath(d) == <<"dest", d>>

\* protos::Storage { source, mount_point, .. }
Descriptor(d) == [source |-> SourcePath(d), mount_point |-> TargetPath(d)]

EmptyMap == [p \in {} |-> 0]

Restrict(f, S) == [p \in (DOMAIN f) \cap S |-> f[p]]

Range(s) == {s[i] : i \in 1..Len(s)}

Min(S) == CHOOSE x \in S : \A y \in S : x <= y

\* the element of a one-element set (a value computed once is named by it)
Only(S) == CHOOSE x \in S : TRUE

\* the numbers of S in ascending order
SortedSeq(S) ==
    [i \in 1..Cardinality(S) |-> CHOOSE x \in S : Cardinality({y \in S : y < x}) = i - 1]

(***************************************************************************)
(* Path operations.                                                        *)
(***************************************************************************)
IsPrefix(p, q) == Len(p) <= Len(q) /\ SubSeq(q, 1, Len(p)) = p

\* Path::strip_prefix: Err when base is no prefix of path.
strip_prefix(path, base) ==
    IF IsPrefix(base, path)
    THEN [ok |-> TRUE, rel |-> SubSeq(path, Len(base) + 1, Len(path))]
    ELSE [ok |-> FALSE, rel |-> <<>>]

\* Path::join: joining the empty path appends a trailing separator.
join(base, rel) == IF rel = <<>> THEN Append(base, 0) ELSE base \o rel

\* Path::parent
parent(path) == SubSeq(path, 1, Len(path) - 1)

\* Storage::make_target_path
make_target_path(e, source_file_path) ==
    LET r == strip_prefix(source_file_path, e.source_mount_point)
    IN  [ok |-> r.ok, path |-> join(e.target_mount_point, r.rel)]

(***************************************************************************)
(* The file system as the engine sees it.  sf: the regular files below the *)
(* sources, path -> [mt, sz, data] (modification time, length, content).   *)
(* tf: the regular files below the targets, path -> content.  td: the      *)
(* directories below (and including) the targets.                          *)
(***************************************************************************)
\* Path::is_file on the source side
is_file(sf, path) == path \in DOMAIN sf

\* Path::is_dir on the source side: a directory source always exists, a
\* deeper directory exists while a file lies below it.
is_dir(sf, path) ==
    \/ \E d \in DirDescs : path = SourcePath(d)
    \/ \E q \in DOMAIN sf : IsPrefix(path, q) /\ q # path

\* Path::exists on the source side
exists(sf, path) == is_file(sf, path) \/ is_dir(sf, path)

\* Path::exists on the target side
target_exists(tf, td, path) == path \in DOMAIN tf \/ path \in td

\* the names fs::read_dir(path) lists, in ascending order
read_dir(sf, path) ==
    SortedSeq({q[Len(path) + 1] : q \in {x \in DOMAIN sf : IsPrefix(path, x) /\ x # path}})

\* fs::create_dir_all(path): path and its ancestors below a target
create_dir_all(td, path) ==
    td \cup {SubSeq(path, 1, n) : n \in 2..Len(path)}

(***************************************************************************)
(* Storage::new                                                            *)
(***************************************************************************)
StorageNew(storage) ==
    [source_mount_point |-> storage.source,
     target_mount_point |-> storage.mount_point,
     watch |-> TRUE,
     watched_files |-> EmptyMap]

(***************************************************************************)
(* Storage::scan_path.  r is the scan in progress: watched_files, the      *)
(* update list, the error raised so far ("none" when there is none), and   *)
(* fuel, the number of the file-system query that fails in this scan (0:   *)
(* none fails).  The result carries the size the call returns.             *)
(***************************************************************************)
Burn(fuel) == IF fuel = 0 THEN 0 ELSE fuel - 1

\* a change detection that marks a file whose time has not moved
Marked_Eq(wf, path, modified) ==
    path \notin DOMAIN wf \/ modified >= wf[path]

\* a change detection that marks new files only
Marked_NewOnly(wf, path, modified) == path \notin DOMAIN wf

\* watcher.rs:197-205: insert, and mark for copy when new or strictly newer
Marked(wf, path, modified) ==
    path \notin DOMAIN wf \/ modified > wf[path]

\* a TooManyFiles that lets MAX_ENTRIES_PER_STORAGE files fail already
TooManyFiles_Strict(wf) == ~(Cardinality(DOMAIN wf) < MAX_ENTRIES_PER_STORAGE)

\* watcher.rs:207-213
TooManyFiles(wf) == ~(Cardinality(DOMAIN wf) <= MAX_ENTRIES_PER_STORAGE)

\* a TooLarge that refuses MAX_SIZE_PER_WATCHABLE_MOUNT bytes already
TooLarge_Strict(size) == ~(size < MAX_SIZE_PER_WATCHABLE_MOUNT)

\* watcher.rs:230-236
TooLarge(size) == ~(size <= MAX_SIZE_PER_WATCHABLE_MOUNT)

RECURSIVE scan_path(_, _, _)
RECURSIVE scan_entries(_, _, _, _, _)
scan_path(r, sf, path) ==
    IF is_file(sf, path)
    THEN IF r.fuel = 1
         THEN [r EXCEPT !.err = "Other", !.fuel = 0, !.size = 0]
         ELSE LET modified == sf[path].mt
                  size == sf[path].sz
                  upd == IF Marked(r.watched_files, path, modified)
                         THEN Append(r.update_list, path)
                         ELSE r.update_list
                  wf == (path :> modified) @@ r.watched_files
                  r1 == [r EXCEPT !.watched_files = wf, !.update_list = upd,
                                  !.fuel = Burn(r.fuel), !.size = size]
              IN  IF TooManyFiles(wf)
                  THEN [r1 EXCEPT !.err = "MountTooManyFiles"]
                  ELSE IF TooLarge(size)
                  THEN [r1 EXCEPT !.err = "MountTooLarge"]
                  ELSE r1
    ELSE IF r.fuel = 1 \/ ~is_dir(sf, path)
         THEN [r EXCEPT !.err = "Other", !.fuel = 0, !.size = 0]
         ELSE Only({IF r1.err # "none" THEN r1
                    ELSE IF TooLarge(r1.size)
                    THEN [r1 EXCEPT !.err = "MountTooLarge"]
                    ELSE r1 :
                    r1 \in {scan_entries([r EXCEPT !.fuel = Burn(r.fuel)], sf, path,
                                         read_dir(sf, path), 0)}})

\* watcher.rs:220-227: the loop over the directory's entries
scan_entries(r, sf, dir, names, size) ==
    IF names = <<>> THEN [r EXCEPT !.size = size]
    ELSE Only({IF c.err # "none" THEN c
               ELSE scan_entries(c, sf, dir, rest, size + c.size) :
               c \in {scan_path(r, sf, Append(dir, Head(names)))},
               rest \in {Tail(names)}})

(***************************************************************************)
(* Storage::update_target.  t = [tf, td] is the target side; bad holds the *)
(* source paths whose mkdir or copy the file system refuses in this scan.  *)
(***************************************************************************)
update_target(e, sf, t, source_file_path, bad) ==
    LET single == is_file(sf, e.source_mount_point)
        made == make_target_path(e, source_file_path)
        dest_file_path == IF single THEN e.target_mount_point ELSE made.path
        td1 == IF single THEN t.td ELSE create_dir_all(t.td, parent(dest_file_path))
    IN  IF ~single /\ ~made.ok THEN [ok |-> FALSE, tf |-> t.tf, td |-> t.td]
        ELSE IF source_file_path \in bad \/ ~is_file(sf, source_file_path)
                \/ dest_file_path \in td1
        THEN [ok |-> FALSE, tf |-> t.tf, td |-> t.td]
        ELSE [ok |-> TRUE,
              tf |-> (dest_file_path :> sf[source_file_path].data) @@ t.tf,
              td |-> td1]

\* a loop over the marked paths that the first failure ends
LeftToUpdate_Abort(u, rest) == IF u.ok THEN rest ELSE <<>>

\* watcher.rs:167-169: if let Err(e) = .. { error!(..) }, and the loop goes
\* on with the paths that are left
LeftToUpdate(u, rest) == rest

\* watcher.rs:165-170: every marked path is tried, a failure is logged;
\* copied counts the calls of update_target that returned Ok
RECURSIVE update_all(_, _, _, _, _)
update_all(e, sf, t, update_list, bad) ==
    IF update_list = <<>> THEN t
    ELSE Only({update_all(e, sf, [tf |-> u.tf, td |-> u.td,
                                  copied |-> t.copied + (IF u.ok THEN 1 ELSE 0)],
                          LeftToUpdate(u, rest), bad) :
               u \in {update_target(e, sf, t, Head(update_list), bad)},
               rest \in {Tail(update_list)}})

(***************************************************************************)
(* Storage::scan.  The result: the entry as the scan leaves it, the target *)
(* side, and what scan returns (ok with n, or err); copied is the number   *)
(* of the n marked files whose copy succeeded.                             *)
(***************************************************************************)
scan(e, sf, t, fuel, bad) ==
    Only({
      Only({
        Only({
          IF \E m \in targets : ~m.ok
          THEN [entry |-> [e EXCEPT !.watched_files = retained], tf |-> t.tf,
                td |-> t.td, ok |-> FALSE, n |-> 0, copied |-> 0, err |-> "Other"]
          ELSE IF r.err # "none"
          THEN [entry |-> [e EXCEPT !.watched_files = r.watched_files],
                tf |-> t1.tf, td |-> t1.td, ok |-> FALSE, n |-> 0, copied |-> 0,
                err |-> r.err]
          ELSE [entry |-> [e EXCEPT !.watched_files = r.watched_files],
                tf |-> t2.tf, td |-> t2.td, ok |-> TRUE, n |-> Len(r.update_list),
                copied |-> t2.copied, err |-> "none"] :
          \* watcher.rs:165-170: the copies, made when the walk raised no error
          t2 \in {IF r.err # "none" THEN t1
                   ELSE Only({update_all(e, sf, t0, l, bad) :
                              t0 \in {t1}, l \in {r.update_list}})}}) :
        \* watcher.rs:157-163: the walk
        r \in {scan_path([watched_files |-> retained, update_list |-> <<>>,
                           err |-> "none", fuel |-> fuel, size |-> 0],
                          sf, e.source_mount_point)},
        \* watcher.rs:149-154: fs::remove_file(target), its failure ignored
        t1 \in {[tf |-> Restrict(t.tf, (DOMAIN t.tf)
                                          \ {m.path : m \in {x \in targets : x.ok}}),
                  td |-> t.td, copied |-> 0]}}) :
      \* watcher.rs:139-146: the paths that no longer exist leave watched_files
      retained \in {Restrict(e.watched_files,
                              {st \in DOMAIN e.watched_files : exists(sf, st)})},
      targets \in {{make_target_path(e, p) :
                       p \in {st \in DOMAIN e.watched_files : ~exists(sf, st)}}}})

(***************************************************************************)
(* SandboxStorages::check, the body of its loop for one entry.  t is the   *)
(* target side with the bind mounts, [tf, td, mnt].  fault is what the     *)
(* world refuses during this pass: nothing ("none"), the fuel-th query of  *)
(* the walk ("io"), the copies of the files in bad ("copy"), the creation  *)
(* of the target ("create"), or the bind mount ("mount").                  *)
(***************************************************************************)
\* a filter that lets every entry through
Filter_All(e) == TRUE

\* watcher.rs:297: .filter(|e| e.watch)
Filter(e) == e.watch

\* watcher.rs:59-68: the two threshold errors of WatcherError
ThresholdErrors == {"MountTooLarge", "MountTooManyFiles"}

\* a check() that starts the fallback on every scan error
IsThreshold_Any(err) == TRUE

\* watcher.rs:299-301: the errors that start the fallback
IsThreshold(err) == err \in ThresholdErrors

\* a fallback that gives up watching whatever baremount returned
WatchAfterMount_Always(e, mountOk) == FALSE

\* a fallback that never clears the flag
WatchAfterMount_Never(e, mountOk) == e.watch

\* watcher.rs:338-343: the flag after baremount returned
WatchAfterMount(e, mountOk) == IF mountOk THEN FALSE ELSE e.watch

\* a check() that goes on when the target cannot be created
Propagate_Swallow(created) == "Ok"

\* watcher.rs:317, 326: the ? behind create_dir_all and File::create
Propagate(created) == IF created THEN "Ok" ELSE "Err"

CheckEntry(e, sf, t, fault) ==
    Only({
      LET createOk == fault.kind # "create"
          mountOk == fault.kind # "mount"
          tp == e.target_mount_point
          missing == ~target_exists(s.tf, s.td, tp)
          td1 == IF missing /\ is_dir(sf, e.source_mount_point)
                 THEN create_dir_all(s.td, tp) ELSE s.td
          tf1 == IF missing /\ ~is_dir(sf, e.source_mount_point)
                 THEN (tp :> 0) @@ s.tf ELSE s.tf
      IN  IF s.ok
          THEN [entry |-> s.entry, tf |-> s.tf, td |-> s.td, mnt |-> t.mnt,
                ret |-> "Ok", scan |-> "Ok", n |-> s.n, copied |-> s.copied,
                create |-> "none", mount |-> "none"]
          ELSE IF ~IsThreshold(s.err)
          THEN [entry |-> s.entry, tf |-> s.tf, td |-> s.td, mnt |-> t.mnt,
                ret |-> "Ok", scan |-> s.err, n |-> 0, copied |-> 0,
                create |-> "none", mount |-> "none"]
          ELSE IF missing /\ ~createOk
          THEN [entry |-> s.entry, tf |-> s.tf, td |-> s.td, mnt |-> t.mnt,
                ret |-> Propagate(createOk),
                scan |-> s.err, n |-> 0, copied |-> 0, create |-> "err",
                mount |-> "none"]
          ELSE [entry |-> [s.entry EXCEPT !.watch = WatchAfterMount(s.entry, mountOk)],
                tf |-> tf1, td |-> td1,
                mnt |-> IF mountOk THEN [t.mnt EXCEPT ![tp] = @ + 1] ELSE t.mnt,
                ret |-> "Ok", scan |-> s.err, n |-> 0, copied |-> 0,
                create |-> IF missing THEN "ok" ELSE "none",
                mount |-> IF mountOk THEN "ok" ELSE "err"] :
      s \in {scan(e, sf, [tf |-> t.tf, td |-> t.td],
                   IF fault.kind = "io" THEN fault.fuel ELSE 0,
                   IF fault.kind = "copy" THEN fault.bad ELSE {})}})

(***************************************************************************)
(* Drop for Storage.                                                       *)
(***************************************************************************)
\* nix::mount::umount(target): EINVAL when nothing is mounted there
umount(mnt, path) == IF mnt[path] > 0 THEN [mnt EXCEPT ![path] = @ - 1] ELSE mnt

\* std::fs::remove_dir_all(path): removes a directory with all below it; on a
\* regular file (or a missing path, or a mount point still in use) it fails
\* and removes nothing.
remove_dir_all(t, path) ==
    IF path \in t.td /\ t.mnt[path] = 0
    THEN [t EXCEPT !.td = {q \in t.td : ~IsPrefix(path, q)},
                   !.tf = Restrict(t.tf, {q \in DOMAIN t.tf : ~IsPrefix(path, q)})]
    ELSE t

StorageDrop(e, t) ==
    LET mnt1 == IF ~e.watch THEN umount(t.mnt, e.target_mount_point) ELSE t.mnt
    IN  remove_dir_all([t EXCEPT !.mnt = mnt1], e.target_mount_point)

\* dropping a SandboxStorages drops its Vec<Storage> front to back
RECURSIVE DropAll(_, _)
DropAll(entries, t) ==
    IF entries = <<>> THEN t
    ELSE Only({DropAll(rest, t1) :
               t1 \in {StorageDrop(Head(entries), t)}, rest \in {Tail(entries)}})

(***************************************************************************)
(* The state.                                                              *)
(***************************************************************************)
VARIABLES
    sandbox_storages,  \* BindWatcher.sandbox_storages: container id -> entries
    watch_thread,      \* BindWatcher.watch_thread: "None" or "Some"
    lock,              \* who holds the registry mutex: "free", "caller", "poller"
    caller,            \* the foreground call in progress
    poller,            \* the spawned task
    torn,              \* cleanup() has run
    rootMounts,        \* tmpfs mounts on WATCH_MOUNT_POINT_PATH
    srcFiles,          \* the regular files below the sources
    dstFiles,          \* the regular files below the targets
    dstDirs,           \* the directories below the targets
    bindMounts,        \* target path -> bind mounts on it
    hist,              \* what the manager has done so far (counters)
    ev                 \* what the last step did

vars == <<sandbox_storages, watch_thread, lock, caller, poller, torn, rootMounts,
          srcFiles, dstFiles, dstDirs, bindMounts, hist, ev>>

fsvars == <<srcFiles, dstFiles, dstDirs, bindMounts>>

(***************************************************************************)
(* Bounds of the exploration.                                              *)
(***************************************************************************)
\* modification times run over 0..MaxMtime
MaxMtime == 0
\* a scan's injected failure hits one of its first MaxFuel file-system queries
MaxFuel == 1
\* file contents run over 1..MaxData
MaxData == 1
\* the changes the world makes to the sources in one run
MaxEnv == 1
\* the add_container and remove_container calls of one run
MaxCalls == 2

\* the lengths a written file may have: a single-file source is written
\* small or too large, a file of a directory source small
Sizes(path) == IF Len(path) = 2 THEN {1, MAX_SIZE_PER_WATCHABLE_MOUNT + 1} ELSE {1}

\* the files of a directory source written one at a time
Named == {1}
\* the files written in one go to fill a directory source past the limit
Bulk == 2..(MAX_ENTRIES_PER_STORAGE + 1)

\* the files the world writes one at a time
FilePaths ==
    {SourcePath(d) \o <<f>> : d \in DirDescs, f \in Named}
        \cup {SourcePath(d) : d \in Descs \ DirDescs}

\* what a step reports: the operation, who ran it, the container and the
\* entry it worked on, what scan returned (n marked, copied of them copied),
\* what became of the creation of the target and of the mount, what check()
\* did (ret) and what the call returned to its caller (call); for
\* add_container, the place of its first new entry (from) and the passes of
\* its initial check (log)
NoEv == [op |-> "none", who |-> "none", cid |-> "none", idx |-> 0, scan |-> "none",
         n |-> 0, copied |-> 0, create |-> "none", mount |-> "none", ret |-> "none",
         call |-> "none", from |-> 0, log |-> <<>>]

\* the foreground call: where it stands, its arguments, the entry check() is
\* at, the number of entries the container had before the call, the passes
\* of its initial check so far
IdleCaller == [pc |-> "idle", id |-> "none", mounts |-> <<>>, i |-> 0, base |-> 0,
               log |-> <<>>]
\* the task: where it stands, the containers iter_mut() has still to yield,
\* the entry check() is at, abort() was called, the containers whose check()
\* was called in this tick and those whose check() returned Err
NoPoller == [pc |-> "none", order |-> <<>>, i |-> 0, aborted |-> FALSE, seen |-> {},
             erred |-> {}]

Target == [tf |-> dstFiles, td |-> dstDirs, mnt |-> bindMounts]

\* the sources a run starts from: each single-file source small or too
\* large, each directory source with its named files, and with or without
\* the files that fill it past the limit
InitialSources ==
    {Restrict([p \in FilePaths \cup {SourcePath(d) \o <<f>> : d \in DirDescs, f \in Bulk} |->
                  [mt |-> 0, sz |-> IF p \in big THEN MAX_SIZE_PER_WATCHABLE_MOUNT + 1 ELSE 1,
                   data |-> 1]],
              FilePaths \cup UNION {{SourcePath(d) \o <<f>> : f \in Bulk} : d \in full}) :
        big \in SUBSET {SourcePath(d) : d \in Descs \ DirDescs}, full \in SUBSET DirDescs}

Init ==
    /\ sandbox_storages = [c \in {} |-> <<>>]
    /\ watch_thread = "None"
    /\ lock = "free"
    /\ caller = IdleCaller
    /\ poller = NoPoller
    /\ torn = FALSE
    /\ rootMounts = 0
    /\ srcFiles \in InitialSources
    /\ dstFiles = EmptyMap
    /\ dstDirs = {}
    /\ bindMounts = [p \in {TargetPath(d) : d \in Descs} |-> 0]
    /\ hist = [bootstraps |-> 0, spawned |-> 0, env |-> 0, calls |-> 0]
    /\ ev = NoEv

(***************************************************************************)
(* The world outside the engine: files of the sources are written and      *)
(* removed at any time.                                                    *)
(***************************************************************************)
EnvWrite(path, mt, sz, data) ==
    /\ srcFiles' = (path :> [mt |-> mt, sz |-> sz, data |-> data]) @@ srcFiles
    /\ srcFiles' # srcFiles
    /\ hist.env < MaxEnv
    /\ hist' = [hist EXCEPT !.env = @ + 1]
    /\ ev' = NoEv
    /\ UNCHANGED <<sandbox_storages, watch_thread, lock, caller, poller, torn,
                   rootMounts, dstFiles, dstDirs, bindMounts>>

EnvRemove(path) ==
    /\ path \in DOMAIN srcFiles
    /\ srcFiles' = Restrict(srcFiles, (DOMAIN srcFiles) \ {path})
    /\ hist.env < MaxEnv
    /\ hist' = [hist EXCEPT !.env = @ + 1]
    /\ ev' = NoEv
    /\ UNCHANGED <<sandbox_storages, watch_thread, lock, caller, poller, torn,
                   rootMounts, dstFiles, dstDirs, bindMounts>>

\* as the tests do: for i in .. { fs::write(src.join(i), "original") }
EnvFill(d) ==
    /\ \A f \in Bulk : SourcePath(d) \o <<f>> \notin DOMAIN srcFiles
    /\ srcFiles' = [p \in {SourcePath(d) \o <<f>> : f \in Bulk} |->
                        [mt |-> 0, sz |-> 1, data |-> 1]] @@ srcFiles
    /\ hist.env < MaxEnv
    /\ hist' = [hist EXCEPT !.env = @ + 1]
    /\ ev' = NoEv
    /\ UNCHANGED <<sandbox_storages, watch_thread, lock, caller, poller, torn,
                   rootMounts, dstFiles, dstDirs, bindMounts>>

EnvTrim(d) ==
    /\ \A f \in Bulk : SourcePath(d) \o <<f>> \in DOMAIN srcFiles
    /\ srcFiles' = Restrict(srcFiles,
                            (DOMAIN srcFiles) \ {SourcePath(d) \o <<f>> : f \in Bulk})
    /\ hist.env < MaxEnv
    /\ hist' = [hist EXCEPT !.env = @ + 1]
    /\ ev' = NoEv
    /\ UNCHANGED <<sandbox_storages, watch_thread, lock, caller, poller, torn,
                   rootMounts, dstFiles, dstDirs, bindMounts>>

(***************************************************************************)
(* BindWatcher::add_container.  A caller passes a list of descriptors      *)
(* whose targets no registered entry holds (every mount of a live          *)
(* container has a target path of its own), and calls add_container only   *)
(* on a manager that has not been torn down.                               *)
(***************************************************************************)
Registered == DOMAIN sandbox_storages

LiveTargets ==
    UNION {{e.target_mount_point : e \in Range(sandbox_storages[c])} : c \in Registered}

FreeDescs == {d \in Descs : TargetPath(d) \notin LiveTargets}

\* the duplicate-free lists over S
Lists(S) ==
    UNION {{l \in [1..n -> S] : \A a, b \in 1..n : a # b => l[a] # l[b]} :
              n \in 1..Cardinality(S)}

\* the orders in which a map that holds some of the keys of S yields them
Orders(S) == {<<>>} \cup Lists(S)

\* an add_container that bootstraps on every call
NeedsBootstrap_Always == TRUE

\* watcher.rs:388: if self.watch_thread.is_none()
NeedsBootstrap == watch_thread = "None"

\* BindWatcher::mount and spawn_watcher (watcher.rs:388-398): the tmpfs
\* bootstrap succeeds and the poller is started
AddBootstrap(id, mounts) ==
    /\ caller.pc = "idle" /\ ~torn
    /\ NeedsBootstrap
    /\ mounts \in Lists(FreeDescs)
    /\ rootMounts' = rootMounts + 1
    /\ watch_thread' = "Some"
    /\ poller' = [NoPoller EXCEPT !.pc = "tick"]
    /\ hist.calls < MaxCalls
    /\ hist' = [hist EXCEPT !.bootstraps = @ + 1, !.spawned = @ + 1, !.calls = @ + 1]
    /\ caller' = [IdleCaller EXCEPT !.pc = "add_lock", !.id = id, !.mounts = mounts]
    /\ ev' = [NoEv EXCEPT !.op = "bootstrap", !.mount = "ok"]
    /\ UNCHANGED <<sandbox_storages, lock, torn, fsvars>>

\* BindWatcher::mount fails (create_dir_all or baremount): add_container
\* returns the error, nothing is spawned
AddBootstrapFails(id, mounts) ==
    /\ caller.pc = "idle" /\ ~torn
    /\ NeedsBootstrap
    /\ mounts \in Lists(FreeDescs)
    /\ hist.calls < MaxCalls
    /\ hist' = [hist EXCEPT !.calls = @ + 1]
    /\ ev' = [NoEv EXCEPT !.op = "bootstrap", !.mount = "err", !.call = "Err",
                          !.cid = id]
    /\ UNCHANGED <<sandbox_storages, watch_thread, lock, caller, poller, torn,
                   rootMounts, fsvars>>

\* the poller runs already: straight to the registry lock
AddStart(id, mounts) ==
    /\ caller.pc = "idle" /\ ~torn
    /\ ~NeedsBootstrap
    /\ mounts \in Lists(FreeDescs)
    /\ caller' = [IdleCaller EXCEPT !.pc = "add_lock", !.id = id, !.mounts = mounts]
    /\ hist.calls < MaxCalls
    /\ hist' = [hist EXCEPT !.calls = @ + 1]
    /\ ev' = NoEv
    /\ UNCHANGED <<sandbox_storages, watch_thread, lock, poller, torn, rootMounts,
                   fsvars>>

\* a set that takes its new entries at the front
push_front(entries, entry) == <<entry>> \o entries

\* watcher.rs:285: self.0.push(entry)
push(entries, entry) == Append(entries, entry)

\* a registration that starts the container's set afresh (HashMap::insert)
entry_insert(registry, id) == (id :> <<>>) @@ registry

\* a registration that keeps no container but the one at hand
entry_alone(registry, id) ==
    (id :> IF id \in DOMAIN registry THEN registry[id] ELSE <<>>)

\* watcher.rs:403-404: entry(id).or_insert_with(SandboxStorages::default)
entry_or_insert(registry, id) ==
    IF id \in DOMAIN registry THEN registry ELSE (id :> <<>>) @@ registry

\* SandboxStorages::add, its loop (watcher.rs:268-286).  failAt is the place
\* in the list of the descriptor whose create_dir_all fails (0: none does).
RECURSIVE AddLoop(_, _, _, _, _)
AddLoop(entries, td, mounts, k, failAt) ==
    IF k > Len(mounts) THEN [entries |-> entries, td |-> td, ok |-> TRUE]
    ELSE LET entry == StorageNew(Descriptor(mounts[k]))
             dir == is_dir(srcFiles, entry.source_mount_point)
         IN  IF dir /\ failAt = k
             THEN [entries |-> entries, td |-> td, ok |-> FALSE]
             ELSE Only({AddLoop(es, ds, mounts, k + 1, failAt) :
                        es \in {push(entries, entry)},
                        ds \in {IF dir THEN create_dir_all(td, entry.target_mount_point)
                                 ELSE td}})

\* a mutex that lets everyone in
MutexFree_Always == TRUE

\* watcher.rs:401, 413, 428: sandbox_storages.lock().await returns the guard
\* once nobody else holds it
MutexFree == lock = "free"

\* watcher.rs:400-405: lock, entry(id).or_insert_with(default), add's loop
AddLocked(failAt) ==
    /\ caller.pc = "add_lock"
    /\ MutexFree
    /\ \E registry \in {entry_or_insert(sandbox_storages, caller.id)} :
        \E a \in {AddLoop(registry[caller.id], dstDirs, caller.mounts, 1, failAt)} :
           /\ sandbox_storages' = [registry EXCEPT ![caller.id] = a.entries]
           /\ dstDirs' = a.td
           /\ IF a.ok
              THEN /\ lock' = "caller"
                   /\ caller' = [caller EXCEPT !.pc = "add_check", !.i = 1,
                                               !.base = Len(registry[caller.id])]
                   /\ ev' = [NoEv EXCEPT !.op = "add", !.cid = caller.id,
                                         !.from = Len(registry[caller.id]) + 1]
              ELSE /\ lock' = "free"
                   /\ caller' = IdleCaller
                   /\ ev' = [NoEv EXCEPT !.op = "add", !.cid = caller.id,
                                         !.from = Len(registry[caller.id]) + 1,
                                         !.create = "err", !.call = "Err"]
    /\ UNCHANGED <<watch_thread, poller, torn, rootMounts, srcFiles, dstFiles,
                   bindMounts, hist>>

\* a check() that looks at the first entry only
Pending_First(entries, i) == {j \in i..Len(entries) : Filter(entries[j]) /\ j = 1}

\* the entries check() has still to visit, from place i on
Pending(entries, i) == {j \in i..Len(entries) : Filter(entries[j])}

\* what the world may refuse during one pass of check() over an entry
Faults ==
    {[kind |-> k, fuel |-> 0, bad |-> {}] : k \in {"none", "create", "mount"}}
        \cup {[kind |-> "io", fuel |-> f, bad |-> {}] : f \in 1..MaxFuel}
        \cup {[kind |-> "copy", fuel |-> 0, bad |-> FilePaths]}

\* what one pass of check() over the entry at place j came to
Pass(j, c) == [idx |-> j, scan |-> c.scan, n |-> c.n, copied |-> c.copied,
               create |-> c.create, mount |-> c.mount]

\* SandboxStorages::check on behalf of add (watcher.rs:289-291): one entry
AddCheckEntry(fault) ==
    /\ caller.pc = "add_check"
    /\ Pending(sandbox_storages[caller.id], caller.i) # {}
    /\ \E j \in {Min(Pending(sandbox_storages[caller.id], caller.i))} :
        \E c \in {CheckEntry(sandbox_storages[caller.id][j], srcFiles, Target, fault)} :
           /\ sandbox_storages' = [sandbox_storages EXCEPT ![caller.id][j] = c.entry]
           /\ dstFiles' = c.tf
           /\ dstDirs' = c.td
           /\ bindMounts' = c.mnt
           /\ IF c.ret = "Ok"
              THEN /\ caller' = [caller EXCEPT !.i = j + 1, !.log = Append(@, Pass(j, c))]
                   /\ lock' = lock
              ELSE /\ caller' = IdleCaller
                   /\ lock' = "free"
           /\ ev' = [op |-> "check", who |-> "caller", cid |-> caller.id, idx |-> j,
                     scan |-> c.scan, n |-> c.n, copied |-> c.copied,
                     create |-> c.create, mount |-> c.mount, ret |-> c.ret,
                     call |-> IF c.ret = "Ok" THEN "none" ELSE "Err",
                     from |-> caller.base + 1, log |-> <<>>]
    /\ UNCHANGED <<watch_thread, poller, torn, rootMounts, srcFiles, hist>>

\* check() has visited every watched entry: add and add_container return Ok
AddReturn ==
    /\ caller.pc = "add_check"
    /\ Pending(sandbox_storages[caller.id], caller.i) = {}
    /\ caller' = IdleCaller
    /\ lock' = "free"
    /\ ev' = [NoEv EXCEPT !.op = "add_return", !.cid = caller.id, !.call = "Ok",
                          !.from = caller.base + 1, !.log = caller.log]
    /\ UNCHANGED <<sandbox_storages, watch_thread, poller, torn, rootMounts, fsvars,
                   hist>>

(***************************************************************************)
(* BindWatcher::remove_container.                                          *)
(***************************************************************************)
RemoveStart(id) ==
    /\ caller.pc = "idle"
    /\ caller' = [IdleCaller EXCEPT !.pc = "rm_lock", !.id = id]
    /\ hist.calls < MaxCalls
    /\ hist' = [hist EXCEPT !.calls = @ + 1]
    /\ ev' = NoEv
    /\ UNCHANGED <<sandbox_storages, watch_thread, lock, poller, torn, rootMounts,
                   fsvars>>

\* watcher.rs:413: lock, remove(id); the removed SandboxStorages is dropped
RemoveLocked ==
    /\ caller.pc = "rm_lock"
    /\ MutexFree
    /\ \E t \in {DropAll(IF caller.id \in Registered THEN sandbox_storages[caller.id]
                            ELSE <<>>, Target)} :
           /\ sandbox_storages' = Restrict(sandbox_storages, Registered \ {caller.id})
           /\ dstFiles' = t.tf
           /\ dstDirs' = t.td
           /\ bindMounts' = t.mnt
    /\ caller' = IdleCaller
    /\ ev' = [NoEv EXCEPT !.op = "remove", !.cid = caller.id]
    /\ UNCHANGED <<watch_thread, lock, poller, torn, rootMounts, srcFiles, hist>>

(***************************************************************************)
(* The task of BindWatcher::spawn_watcher.                                 *)
(***************************************************************************)
\* watcher.rs:425-428: the interval fires, the lock is taken, iter_mut()
\* yields the containers in some order
PollBegin(order) ==
    /\ poller.pc = "tick" /\ ~poller.aborted
    /\ MutexFree
    /\ order \in Orders(Registered) /\ Len(order) = Cardinality(Registered)
    /\ lock' = "poller"
    /\ poller' = [poller EXCEPT !.pc = "check", !.order = order, !.i = 1, !.seen = {},
                                !.erred = {}]
    /\ ev' = NoEv
    /\ UNCHANGED <<sandbox_storages, watch_thread, caller, torn, rootMounts, fsvars,
                   hist>>

\* a loop that an error of check() breaks out of
AfterCheck_Break(p, ret) ==
    [p EXCEPT !.order = IF ret = "Err" THEN <<>> ELSE Tail(p.order), !.i = 1,
              !.seen = p.seen \cup {Head(p.order)},
              !.erred = IF ret = "Err" THEN p.erred \cup {Head(p.order)} ELSE p.erred]

\* watcher.rs:429-432: what the loop does after check() returned ret
AfterCheck(p, ret) ==
    [p EXCEPT !.order = Tail(p.order), !.i = 1, !.seen = p.seen \cup {Head(p.order)},
              !.erred = IF ret = "Err" THEN p.erred \cup {Head(p.order)} ELSE p.erred]

\* entries.check(&logger) of the container at hand: one entry
PollCheckEntry(fault) ==
    /\ poller.pc = "check" /\ ~poller.aborted
    /\ poller.order # <<>>
    /\ Pending(sandbox_storages[Head(poller.order)], poller.i) # {}
    /\ \E cid \in {Head(poller.order)} :
        \E j \in {Min(Pending(sandbox_storages[cid], poller.i))} :
        \E c \in {CheckEntry(sandbox_storages[cid][j], srcFiles, Target, fault)} :
           /\ sandbox_storages' = [sandbox_storages EXCEPT ![cid][j] = c.entry]
           /\ dstFiles' = c.tf
           /\ dstDirs' = c.td
           /\ bindMounts' = c.mnt
           /\ poller' = IF c.ret = "Ok" THEN [poller EXCEPT !.i = j + 1]
                        ELSE AfterCheck(poller, c.ret)
           /\ ev' = [op |-> "check", who |-> "poller", cid |-> cid, idx |-> j,
                     scan |-> c.scan, n |-> c.n, copied |-> c.copied,
                     create |-> c.create, mount |-> c.mount, ret |-> c.ret,
                     call |-> "none", from |-> 0, log |-> <<>>]
    /\ UNCHANGED <<watch_thread, lock, caller, torn, rootMounts, srcFiles, hist>>

\* check() of the container at hand returns Ok: on to the next container
PollCheckDone ==
    /\ poller.pc = "check" /\ ~poller.aborted
    /\ poller.order # <<>>
    /\ Pending(sandbox_storages[Head(poller.order)], poller.i) = {}
    /\ poller' = AfterCheck(poller, "Ok")
    /\ ev' = NoEv
    /\ UNCHANGED <<sandbox_storages, watch_thread, lock, caller, torn, rootMounts,
                   fsvars, hist>>

\* the for loop ends, the guard is dropped, back to interval.tick()
PollEnd ==
    /\ poller.pc = "check" /\ ~poller.aborted
    /\ poller.order = <<>>
    /\ lock' = "free"
    /\ poller' = [poller EXCEPT !.pc = "tick", !.i = 0]
    /\ ev' = [NoEv EXCEPT !.op = "tick_end"]
    /\ UNCHANGED <<sandbox_storages, watch_thread, caller, torn, rootMounts, fsvars,
                   hist>>

\* a task that is dropped with the guard still locked
GuardDropped_Kept(l) == l

\* watcher.rs:428: the MutexGuard lives in the task's future; it
\* unlocks when it is dropped, with the future as well
GuardDropped(l) == IF l = "poller" THEN "free" ELSE l

\* the runtime drops the aborted task at the await it is suspended in; a
\* guard it holds is released with it
PollerReap ==
    /\ poller.aborted
    /\ poller' = NoPoller
    /\ lock' = GuardDropped(lock)
    /\ ev' = [NoEv EXCEPT !.op = "reap"]
    /\ UNCHANGED <<sandbox_storages, watch_thread, caller, torn, rootMounts, fsvars,
                   hist>>

(***************************************************************************)
(* BindWatcher::cleanup.  The targets lie below WATCH_MOUNT_POINT_PATH:    *)
(* umount of the tmpfs is refused (EBUSY) while a bind mount sits on one   *)
(* of them, and takes the targets with it when it succeeds.                *)
(***************************************************************************)
RootBusy == \E p \in DOMAIN bindMounts : bindMounts[p] > 0

Cleanup ==
    /\ caller.pc = "idle"
    /\ watch_thread' = "None"
    /\ poller' = IF watch_thread = "Some" THEN [poller EXCEPT !.aborted = TRUE]
                 ELSE poller
    /\ IF rootMounts > 0 /\ ~RootBusy
       THEN /\ rootMounts' = rootMounts - 1
            /\ dstFiles' = EmptyMap
            /\ dstDirs' = {}
       ELSE UNCHANGED <<rootMounts, dstFiles, dstDirs>>
    /\ torn' = TRUE
    /\ ev' = [NoEv EXCEPT !.op = "cleanup"]
    /\ UNCHANGED <<sandbox_storages, lock, caller, srcFiles, bindMounts, hist>>

(***************************************************************************)
(* The registry goes away.  Drop for BindWatcher runs cleanup() and then   *)
(* releases the manager's Arc of the registry; the task holds the other    *)
(* one until the runtime has dropped it.  With the last Arc the HashMap is *)
(* dropped, its containers in some order, each dropping its entries.       *)
(***************************************************************************)
RECURSIVE DropContainers(_, _, _)
DropContainers(registry, order, t) ==
    IF order = <<>> THEN t
    ELSE Only({DropContainers(registry, rest, t1) :
               t1 \in {DropAll(registry[Head(order)], t)}, rest \in {Tail(order)}})

RegistryDrop(order) ==
    /\ torn
    /\ caller.pc = "idle"
    /\ poller.pc = "none"
    /\ order \in Orders(Registered) /\ Len(order) = Cardinality(Registered)
    /\ \E t \in {DropContainers(sandbox_storages, order, Target)} :
           /\ dstFiles' = t.tf
           /\ dstDirs' = t.td
           /\ bindMounts' = t.mnt
    /\ sandbox_storages' = [c \in {} |-> <<>>]
    /\ caller' = [IdleCaller EXCEPT !.pc = "dropped"]
    /\ ev' = [NoEv EXCEPT !.op = "drop"]
    /\ UNCHANGED <<watch_thread, lock, poller, torn, rootMounts, srcFiles, hist>>

(***************************************************************************)
(* The specification.                                                      *)
(***************************************************************************)
Env ==
    \/ \E path \in FilePaths, mt \in 0..MaxMtime, data \in 1..MaxData :
          \E sz \in Sizes(path) : EnvWrite(path, mt, sz, data)
    \/ \E path \in FilePaths : EnvRemove(path)
    \/ \E d \in DirDescs : EnvFill(d)
    \/ \E d \in DirDescs : EnvTrim(d)

Next ==
    \/ Env
    \/ \E id \in Cids, mounts \in Lists(Descs) : AddBootstrap(id, mounts)
    \/ \E id \in Cids, mounts \in Lists(Descs) : AddBootstrapFails(id, mounts)
    \/ \E id \in Cids, mounts \in Lists(Descs) : AddStart(id, mounts)
    \/ \E failAt \in 0..Cardinality(Descs) : AddLocked(failAt)
    \/ \E fault \in Faults : AddCheckEntry(fault)
    \/ AddReturn
    \/ \E id \in Cids : RemoveStart(id)
    \/ RemoveLocked
    \/ \E order \in Orders(Cids) : PollBegin(order)
    \/ \E fault \in Faults : PollCheckEntry(fault)
    \/ PollCheckDone
    \/ PollEnd
    \/ PollerReap
    \/ Cleanup
    \/ \E order \in Orders(Cids) : RegistryDrop(order)

Spec == Init /\ [][Next]_vars

(***************************************************************************)
(* Properties.                                                             *)
(***************************************************************************)
\* the number of entries container c holds (0 when it is not registered)
Count(registry, c) == IF c \in DOMAIN registry THEN Len(registry[c]) ELSE 0

\* the entry the last step worked on
EvEntry == sandbox_storages[ev.cid][ev.idx]

\* the step that led here was a pass of check() over entry j of container c
\* whose scan hit a threshold and whose bind mount succeeded
Converted(c, j) ==
    /\ ev.op = "check" /\ ev.cid = c /\ ev.idx = j
    /\ ev.scan \in ThresholdErrors
    /\ ev.mount = "ok"

\* a walk of the source from scratch stays under both limits
FitsLimits(sf, source) ==
    scan_path([watched_files |-> EmptyMap, update_list |-> <<>>, err |-> "none",
               fuel |-> 0, size |-> 0], sf, source).err = "none"

\* C1: in every step, the watch flag of an entry goes from true to false if
\* and only if the step is a pass of check() over that entry (from the poller
\* or from add) whose scan failed with MountTooManyFiles or MountTooLarge and
\* whose bind mount succeeded; an entry that a step creates is watching.
C1_WatchClearedOnlyByFallback ==
    [][\A c \in DOMAIN sandbox_storages' :
          \A j \in 1..Len(sandbox_storages'[c]) :
             IF j <= Count(sandbox_storages, c)
             THEN (sandbox_storages[c][j].watch /\ ~sandbox_storages'[c][j].watch)
                     <=> Converted(c, j)'
             ELSE sandbox_storages'[c][j].watch]_vars

\* a pass of check() has just turned an entry into a bind mount
C1_Witness ==
    /\ ev.op = "check" /\ ev.scan \in ThresholdErrors /\ ev.mount = "ok"
    /\ ~EvEntry.watch
    /\ bindMounts[EvEntry.target_mount_point] > 0

\* C2: an entry whose watch flag is false keeps it false in every step, as
\* long as its container stays registered: poller ticks, add_container on
\* the same container and changes of the source (shrinking included) never
\* set it back to true.
C2_UnwatchedStaysUnwatched ==
    [][\A c \in (DOMAIN sandbox_storages) \cap (DOMAIN sandbox_storages') :
          \A j \in 1..Len(sandbox_storages[c]) :
             (j <= Len(sandbox_storages'[c]) /\ ~sandbox_storages[c][j].watch)
                 => ~sandbox_storages'[c][j].watch]_vars

\* a tick of the poller has ended while an entry is not watched although its
\* source is back under both limits
C2_Witness ==
    /\ ev.op = "tick_end"
    /\ \E c \in Registered : \E j \in 1..Len(sandbox_storages[c]) :
          /\ ~sandbox_storages[c][j].watch
          /\ FitsLimits(srcFiles, sandbox_storages[c][j].source_mount_point)

\* C3: a pass of check() whose bind mount fails makes check() go on (no
\* error is returned for it) and leaves the entry watching with no bind
\* mount on its target; a pass attempts the mount only when its own scan
\* failed with MountTooManyFiles or MountTooLarge, and never when its scan
\* succeeded.
C3_FailedMountKeepsWatching ==
    ev.op = "check" =>
        /\ ev.mount = "err" =>
              /\ ev.ret = "Ok"
              /\ EvEntry.watch
              /\ bindMounts[EvEntry.target_mount_point] = 0
        /\ ev.mount # "none" => ev.scan \in ThresholdErrors
        /\ ev.scan = "Ok" => ev.mount = "none"

\* the poller has come back to an entry, its scan hit a threshold again and
\* the bind mount failed
C3_Witness ==
    /\ ev.op = "check" /\ ev.who = "poller"
    /\ ev.scan \in ThresholdErrors /\ ev.mount = "err"
    /\ EvEntry.watch

\* the passes of the initial check over entry j
PassesOver(log, j) == {k \in 1..Len(log) : log[k].idx = j}

\* the places of the entries the returning add_container created
NewPlaces == ev.from..Len(sandbox_storages[ev.cid])

\* C4 (as amended): when add_container returns success, check() has made
\* exactly one pass over every entry the call created, and that pass either
\* scanned the entry and handed every marked file to the copy step (a copy
\* that fails is logged only), or failed its scan with an I/O error and left
\* the entry watching with nothing copied, or hit a threshold and attempted
\* the bind mount (on success the entry is a bind mount, on failure it is
\* left watching); and a pass of the initial check over a single-file source
\* whose scan succeeds and whose copy does not fail marks exactly one file
\* and leaves the target's content equal to the source's.
C4_InitialCheckPassesEveryNewEntry ==
    /\ ev.op = "add_return" =>
          \A j \in NewPlaces :
             /\ Cardinality(PassesOver(ev.log, j)) = 1
             /\ \A k \in PassesOver(ev.log, j) :
                   \/ ev.log[k].scan = "Ok" /\ ev.log[k].copied <= ev.log[k].n
                   \/ ev.log[k].scan = "Other" /\ ev.log[k].copied = 0
                         /\ ev.log[k].mount = "none"
                   \/ ev.log[k].scan \in ThresholdErrors
                         /\ ev.log[k].mount \in {"ok", "err"}
    /\ (/\ ev.op = "check" /\ ev.who = "caller" /\ ev.idx >= ev.from
        /\ ev.scan = "Ok" /\ ev.copied = ev.n
        /\ is_file(srcFiles, EvEntry.source_mount_point)) =>
          /\ ev.n = 1
          /\ DOMAIN EvEntry.watched_files = {EvEntry.source_mount_point}
          /\ EvEntry.target_mount_point \in DOMAIN dstFiles
          /\ dstFiles[EvEntry.target_mount_point]
                = srcFiles[EvEntry.source_mount_point].data

\* add_container has returned success for two new entries, a single-file
\* source copied and a directory whose scan or whose bind mount failed
C4_Witness ==
    /\ ev.op = "add_return" /\ ev.call = "Ok"
    /\ Cardinality(NewPlaces) = 2
    /\ \E k \in 1..Len(ev.log) :
          /\ ev.log[k].idx \in NewPlaces
          /\ ev.log[k].scan = "Ok" /\ ev.log[k].copied = 1
          /\ is_file(srcFiles, sandbox_storages[ev.cid][ev.log[k].idx].source_mount_point)
    /\ \E k \in 1..Len(ev.log) :
          /\ ev.log[k].idx \in NewPlaces
          /\ \/ ev.log[k].scan = "Other"
             \/ ev.log[k].mount = "err"

\* C4 as stated: when add_container returns success, every entry it created
\* has been scanned with all its marked files copied, or is a bind mount.
C4_AsStated ==
    ev.op = "add_return" =>
        \A j \in NewPlaces :
           \E k \in PassesOver(ev.log, j) :
              \/ ev.log[k].scan = "Ok" /\ ev.log[k].copied = ev.log[k].n
              \/ ev.log[k].mount = "ok"

\* C5 (as amended): add_container returns an error when the tmpfs bootstrap
\* fails, when the target directory of a new directory entry cannot be
\* created, and when the initial check cannot create the missing target of a
\* fallback; it returns success only when none of these happened.  A failed
\* initial scan (I/O error or threshold) and a failed bind mount of the
\* fallback are logged and do not make it fail.
C5_AddContainerErrors ==
    /\ (ev.op = "bootstrap" /\ ev.mount = "err") => ev.call = "Err"
    /\ (ev.op = "add" /\ ev.create = "err") => ev.call = "Err"
    /\ (ev.op = "check" /\ ev.who = "caller" /\ ev.create = "err") => ev.call = "Err"
    /\ ev.call = "Ok" =>
          /\ ev.op = "add_return"
          /\ \A k \in 1..Len(ev.log) : ev.log[k].create # "err"
          /\ \A j \in NewPlaces : PassesOver(ev.log, j) # {}

\* the initial check has just failed to create the target of a fallback and
\* add_container has returned the error
C5_Witness ==
    /\ ev.op = "check" /\ ev.who = "caller"
    /\ ev.scan \in ThresholdErrors /\ ev.create = "err"
    /\ ev.call = "Err"

\* C5 as stated: add_container never returns success when the initial scan
\* of a new entry or its fallback failed.
C5_AsStated ==
    ev.op = "add_return" =>
        \A j \in NewPlaces :
           \A k \in PassesOver(ev.log, j) :
              \/ ev.log[k].scan = "Ok"
              \/ ev.log[k].scan \in ThresholdErrors /\ ev.log[k].mount = "ok"

\* the step is one of an add_container call
AddStep ==
    \/ /\ caller' # caller
       /\ \/ caller.pc \in {"add_lock", "add_check"}
          \/ caller'.pc \in {"add_lock", "add_check"}
    \/ ev'.op = "bootstrap"

\* the container the add_container call of the step is for
AddId == IF caller.pc = "idle" THEN caller'.id ELSE caller.id

\* what lies at and below a target path
Subtree(path) ==
    [files |-> Restrict(dstFiles, {q \in DOMAIN dstFiles : IsPrefix(path, q)}),
     dirs |-> {q \in dstDirs : IsPrefix(path, q)},
     mounts |-> bindMounts[path]]

\* C6: no step of an add_container call, and so no call that fails, stops a
\* poller that runs, and none touches the storage set of another container:
\* the set stays registered with the same entries (flags and watched files
\* included), and none of its targets is unmounted or deleted.
C6_FailingAddLeavesOthers ==
    [][AddStep =>
          /\ watch_thread = "Some" => (watch_thread' = "Some" /\ poller' = poller)
          /\ \A c \in Registered \ {AddId} :
                /\ c \in DOMAIN sandbox_storages'
                /\ sandbox_storages'[c] = sandbox_storages[c]
                /\ \A j \in 1..Len(sandbox_storages[c]) :
                      Subtree(sandbox_storages[c][j].target_mount_point)'
                          = Subtree(sandbox_storages[c][j].target_mount_point)]_vars

\* an add_container call has just failed in its initial check while another
\* container holds entries and the poller runs
C6_Witness ==
    /\ ev.op = "check" /\ ev.who = "caller" /\ ev.call = "Err"
    /\ \E c \in Registered \ {ev.cid} : Len(sandbox_storages[c]) > 0
    /\ watch_thread = "Some" /\ poller.pc # "none" /\ ~poller.aborted

\* C7: over all the add_container calls of a manager, failed ones included,
\* the tmpfs is mounted at most once and at most one poller is spawned; the
\* poller is spawned only when the tmpfs mount has succeeded, and until it
\* is spawned no target holds a file, a directory or a mount and no entry is
\* registered.
C7_BootstrapOnce ==
    /\ hist.bootstraps <= 1
    /\ hist.spawned <= 1
    /\ hist.spawned <= hist.bootstraps
    /\ hist.spawned = 0 =>
          /\ dstFiles = EmptyMap /\ dstDirs = {}
          /\ \A path \in DOMAIN bindMounts : bindMounts[path] = 0
          /\ Registered = {}

\* a second add_container call runs on the poller the first one spawned,
\* and a target holds a file
C7_Witness ==
    /\ hist.calls >= 2 /\ hist.bootstraps = 1 /\ hist.spawned = 1
    /\ ev.op = "add_return"
    /\ Cardinality(Registered) = 2
    /\ dstFiles # EmptyMap

\* C8: add_container on a registered id appends: the step that pushes the
\* new entries keeps the existing ones as they are, in their places, and
\* puts one fresh entry per descriptor behind them, and it leaves the files
\* and the mounts of the targets alone; and no step of the call changes the
\* source or the target of an existing entry, sets a false watch flag back,
\* unmounts a target or deletes a target directory.
C8_AddAppends ==
    [][/\ ev'.op = "add" =>
             \E old \in {IF ev'.cid \in Registered THEN sandbox_storages[ev'.cid]
                         ELSE <<>>} :
             \E now \in {sandbox_storages'[ev'.cid]} :
                /\ Len(now) >= Len(old)
                /\ SubSeq(now, 1, Len(old)) = old
                /\ \A j \in (Len(old) + 1)..Len(now) :
                      now[j] = StorageNew(Descriptor(caller.mounts[j - Len(old)]))
                /\ ev'.call # "Err" => Len(now) = Len(old) + Len(caller.mounts)
                /\ dstFiles' = dstFiles /\ bindMounts' = bindMounts
                /\ dstDirs \subseteq dstDirs'
       /\ AddStep =>
             \A c \in Registered :
                /\ c \in DOMAIN sandbox_storages'
                /\ Len(sandbox_storages'[c]) >= Len(sandbox_storages[c])
                /\ \A j \in 1..Len(sandbox_storages[c]) :
                      \E e \in {sandbox_storages[c][j]} :
                      \E f \in {sandbox_storages'[c][j]} :
                         /\ f.source_mount_point = e.source_mount_point
                         /\ f.target_mount_point = e.target_mount_point
                         /\ ~e.watch => ~f.watch
                         /\ bindMounts'[e.target_mount_point]
                               >= bindMounts[e.target_mount_point]
                         /\ e.target_mount_point \in dstDirs
                               => e.target_mount_point \in dstDirs']_vars

\* add_container has just pushed a new entry behind an existing one that is
\* a bind mount
C8_Witness ==
    /\ ev.op = "add" /\ ev.from > 1
    /\ Len(sandbox_storages[ev.cid]) >= ev.from
    /\ ~sandbox_storages[ev.cid][1].watch
    /\ sandbox_storages[ev.cid][ev.from].watch

\* C9 as stated: remove_container of a registered id takes the set out of
\* the registry and disposes every entry, so that afterwards none of the
\* set's targets exists and none is mounted; for an id that is not
\* registered the registry stays as it is.
C9_AsStated ==
    [][ev'.op = "remove" =>
          IF ev'.cid \in Registered
          THEN /\ ev'.cid \notin DOMAIN sandbox_storages'
               /\ \A j \in 1..Len(sandbox_storages[ev'.cid]) :
                     \E e \in {sandbox_storages[ev'.cid][j]} :
                        /\ ~target_exists(dstFiles', dstDirs', e.target_mount_point)
                        /\ bindMounts'[e.target_mount_point] = 0
          ELSE sandbox_storages' = sandbox_storages]_vars

\* C10: the task ends only when it is aborted, and only cleanup() aborts
\* it; and when a tick ends, check() has been called on every registered
\* container, whatever the checks of the others returned.
C10_PollerSurvivesErrors ==
    [][/\ (poller.pc # "none" /\ poller'.pc = "none") => poller.aborted
       /\ (~poller.aborted /\ poller'.aborted) => ev'.op = "cleanup"
       /\ ev'.op = "tick_end" => poller'.seen = DOMAIN sandbox_storages'
       /\ (ev'.op = "check" /\ ev'.who = "poller")
             => (poller'.pc = "check" /\ ~poller'.aborted)]_vars

\* a tick over two containers has ended in which the check() of one of them
\* returned an error
C10_Witness ==
    /\ ev.op = "tick_end"
    /\ poller.erred # {}
    /\ poller.seen = Registered
    /\ Cardinality(Registered) = 2
    /\ poller.pc = "tick"

\* C11: the registry mutex serialises the work on the entries.  The caller
\* is inside add (insert and initial check) exactly while it holds the
\* mutex, the task is inside a traversal exactly while it holds it, so the
\* two never overlap and no tick sees a container whose add is under way;
\* every pass of check() over an entry was made by the holder of the mutex;
\* and a traversal starts only from interval.tick(), after the one before
\* has ended.
C11_LockSerializes ==
    /\ lock \in {"free", "caller", "poller"}
    /\ (caller.pc = "add_check") <=> (lock = "caller")
    /\ (poller.pc = "check") <=> (lock = "poller")
    /\ ~(caller.pc = "add_check" /\ poller.pc = "check")
    /\ (ev.op = "check" /\ ev.who = "poller") => lock = "poller"
    /\ (ev.op = "check" /\ ev.who = "caller")
          => (lock = "caller" \/ (ev.ret = "Err" /\ lock = "free"))
    /\ ev.op = "remove" => lock # "caller"
    /\ hist.spawned <= 1

\* an add_container waits for the mutex while the task, in the middle of a
\* traversal, has just scanned an entry
C11_Witness ==
    /\ caller.pc = "add_lock"
    /\ lock = "poller"
    /\ ev.op = "check" /\ ev.who = "poller"
    /\ poller.order # <<>>

\* C12: once cleanup() has run, the tmpfs on WATCH_MOUNT_POINT_PATH is no
\* longer mounted and the task starts no further traversal, whatever the
\* registry held at that moment.
C12_AsStated ==
    [][torn' => /\ rootMounts' = 0
                /\ ~(poller.pc = "tick" /\ poller'.pc = "check")]_vars

\* C13: when the manager goes away with containers still registered, every
\* entry left in the registry is disposed: after the registry was dropped
\* no bind mount sits on the target of any of them and none of their target
\* paths exists any more.
C13_AsStated ==
    [][ev'.op = "drop" =>
          \A c \in Registered : \A j \in 1..Len(sandbox_storages[c]) :
             \E e \in {sandbox_storages[c][j]} :
                /\ bindMounts'[e.target_mount_point] = 0
                /\ ~target_exists(dstFiles', dstDirs', e.target_mount_point)]_vars

(***************************************************************************)
(* The engine under fair scheduling.  The runtime keeps running the task:  *)
(* the interval fires again, the tokio mutex is handed out in the order of *)
(* the requests, and every file-system operation returns; a call that was  *)
(* started runs to its end.  The file system does not refuse for ever: a   *)
(* pass of check() that could be made again and again is made without a    *)
(* fault again and again.                                                  *)
(***************************************************************************)
NoFault == [kind |-> "none", fuel |-> 0, bad |-> {}]

\* the engine with one container
LiveCids == {"c1"}

Fairness ==
    /\ WF_vars(\E order \in Orders(LiveCids) : PollBegin(order))
    /\ SF_vars(PollCheckEntry(NoFault))
    /\ WF_vars(PollCheckDone)
    /\ WF_vars(PollEnd)
    /\ WF_vars(\E failAt \in 0..Cardinality(Descs) : AddLocked(failAt))
    /\ WF_vars(\E fault \in Faults : AddCheckEntry(fault))
    /\ WF_vars(AddReturn)
    /\ WF_vars(RemoveLocked)

LiveNext ==
    \/ Env
    \/ \E id \in LiveCids, mounts \in Lists(Descs) : AddBootstrap(id, mounts)
    \/ \E id \in LiveCids, mounts \in Lists(Descs) : AddBootstrapFails(id, mounts)
    \/ \E id \in LiveCids, mounts \in Lists(Descs) : AddStart(id, mounts)
    \/ \E failAt \in 0..Cardinality(Descs) : AddLocked(failAt)
    \/ \E fault \in Faults : AddCheckEntry(fault)
    \/ AddReturn
    \/ \E id \in LiveCids : RemoveStart(id)
    \/ RemoveLocked
    \/ \E order \in Orders(LiveCids) : PollBegin(order)
    \/ \E fault \in Faults : PollCheckEntry(fault)
    \/ PollCheckDone
    \/ PollEnd
    \/ PollerReap
    \/ Cleanup
    \/ \E order \in Orders(LiveCids) : RegistryDrop(order)

LiveSpec == Init /\ [][LiveNext]_vars /\ Fairness

\* the files below a source
Below(sf, source) == {p \in DOMAIN sf : IsPrefix(source, p)}

\* the place in the target of file p of entry e
Mirror(e, p) ==
    IF p = e.source_mount_point THEN e.target_mount_point
    ELSE e.target_mount_point \o strip_prefix(p, e.source_mount_point).rel

\* file p of entry e has an up-to-date copy in the target
Mirrored(e, p, sf, tf) ==
    Mirror(e, p) \in DOMAIN tf /\ tf[Mirror(e, p)] = sf[p].data

\* the entry on target d is registered and watching under a manager that is
\* not torn down, its source stays under both limits, and a file of the
\* source has no up-to-date copy in the target
Behind(d) ==
    /\ ~torn
    /\ \E c \in Registered : \E j \in 1..Len(sandbox_storages[c]) :
          \E e \in {sandbox_storages[c][j]} :
             /\ e.target_mount_point = TargetPath(d)
             /\ e.watch
             /\ FitsLimits(srcFiles, e.source_mount_point)
             /\ \E p \in Below(srcFiles, e.source_mount_point) :
                   ~Mirrored(e, p, srcFiles, dstFiles)

\* C14: under fair scheduling the task scans every watching entry again and
\* again, so a file of a watched source that is not mirrored yet is
\* mirrored in the end, with no call of the caller, as long as the entry
\* stays registered, watching and under both limits.
C14_AsStated == \A d \in Descs : Behind(d) ~> ~Behind(d)

(***************************************************************************)
(* One entry under check(), as the tests of Storage drive it: an entry is  *)
(* made for a source and a target, the world writes and removes files of   *)
(* the source, and check() passes over the entry again and again.  hist    *)
(* keeps what became of the entry's last scan (last), what the world did   *)
(* to the source since then (since: "clean", "removed" when it only        *)
(* removed files, "changed" otherwise), whether the world has written to   *)
(* the source at all (written) and whether a copy has failed (copyfail).   *)
(***************************************************************************)
\* modification times run over 0..ScanMaxMtime
ScanMaxMtime == 1
\* the failing file-system query of a scan is one of its first ScanMaxFuel
ScanMaxFuel == 3
\* file contents run over 1..ScanMaxData
ScanMaxData == 2
\* the changes the world makes to the source in one run
ScanMaxEnv == 2

\* the lengths of the files: small ones and the ones around the limit
BoundarySizes ==
    {1, 2, MAX_SIZE_PER_WATCHABLE_MOUNT - 1, MAX_SIZE_PER_WATCHABLE_MOUNT,
     MAX_SIZE_PER_WATCHABLE_MOUNT + 1}

\* the lengths the world gives a file it writes over
WriteSizes == {1, 2, MAX_SIZE_PER_WATCHABLE_MOUNT + 1}

\* the numbers of files a directory source is filled up to
ScanCounts ==
    {2, MAX_ENTRIES_PER_STORAGE, MAX_ENTRIES_PER_STORAGE + 1,
     MAX_ENTRIES_PER_STORAGE + 2}

ScanCid == "c1"

ScanEntry == sandbox_storages[ScanCid][1]

\* the files the world writes one at a time: two files of a directory
\* source, the file itself of a single-file source
ScanPaths(source) ==
    IF source[2] \in DirDescs THEN {source \o <<f>> : f \in 1..2} ELSE {source}

\* the sources a run starts from: a directory of k small files, a directory
\* of two files of any two lengths, a single file of any length
ScanSources(d) ==
    IF d \in DirDescs
    THEN {[p \in {SourcePath(d) \o <<f>> : f \in 1..k} |-> [mt |-> 0, sz |-> 1, data |-> 1]] :
             k \in ScanCounts}
         \cup {(SourcePath(d) \o <<1>> :> [mt |-> 0, sz |-> s1, data |-> 1])
                  @@ (SourcePath(d) \o <<2>> :> [mt |-> 0, sz |-> s2, data |-> 1]) :
                  s1 \in BoundarySizes, s2 \in BoundarySizes}
    ELSE {(SourcePath(d) :> [mt |-> 0, sz |-> s, data |-> 1]) : s \in BoundarySizes}

\* Storage::new on a descriptor whose target exists (a tempdir in the tests)
ScanInit ==
    /\ \E d \in Descs :
          /\ sandbox_storages = (ScanCid :> <<StorageNew(Descriptor(d))>>)
          /\ srcFiles \in ScanSources(d)
          /\ dstDirs = IF d \in DirDescs THEN {TargetPath(d)} ELSE {}
    /\ watch_thread = "None"
    /\ lock = "free"
    /\ caller = IdleCaller
    /\ poller = NoPoller
    /\ torn = FALSE
    /\ rootMounts = 0
    /\ dstFiles = EmptyMap
    /\ bindMounts = [p \in {TargetPath(d) : d \in Descs} |-> 0]
    /\ hist = [env |-> 0, last |-> "none", since |-> "clean", written |-> FALSE,
               copyfail |-> FALSE]
    /\ ev = NoEv

\* the files the world writes one at a time, of whatever source
ScanWritable == UNION {ScanPaths(SourcePath(d)) : d \in Descs}

\* what the world may refuse during one pass
ScanFaults ==
    {[kind |-> k, fuel |-> 0, bad |-> {}] : k \in {"none", "create", "mount"}}
        \cup {[kind |-> "io", fuel |-> f, bad |-> {}] : f \in 1..ScanMaxFuel}
        \cup {[kind |-> "copy", fuel |-> 0, bad |-> {p}] : p \in ScanWritable}

\* entries.check(&logger) over the entry (watcher.rs:296-351)
ScanCheck(fault) ==
    /\ Filter(ScanEntry)
    /\ \E c \in {CheckEntry(ScanEntry, srcFiles, Target, fault)} :
          /\ sandbox_storages' = [sandbox_storages EXCEPT ![ScanCid][1] = c.entry]
          /\ dstFiles' = c.tf
          /\ dstDirs' = c.td
          /\ bindMounts' = c.mnt
          /\ hist' = [hist EXCEPT !.last = c.scan, !.since = "clean",
                                  !.copyfail = @ \/ c.copied < c.n]
          /\ ev' = [op |-> "check", who |-> "caller", cid |-> ScanCid, idx |-> 1,
                    scan |-> c.scan, n |-> c.n, copied |-> c.copied,
                    create |-> c.create, mount |-> c.mount, ret |-> c.ret,
                    call |-> "none", from |-> 0, log |-> <<>>]
    /\ UNCHANGED <<watch_thread, lock, caller, poller, torn, rootMounts, srcFiles>>

\* fs::write(path, ..) and File::set_len
ScanWrite(path, mt, sz, data) ==
    /\ path \in ScanPaths(ScanEntry.source_mount_point)
    /\ srcFiles' = (path :> [mt |-> mt, sz |-> sz, data |-> data]) @@ srcFiles
    /\ srcFiles' # srcFiles
    /\ hist.env < ScanMaxEnv
    /\ hist' = [hist EXCEPT !.env = @ + 1, !.since = "changed", !.written = TRUE]
    /\ ev' = NoEv
    /\ UNCHANGED <<sandbox_storages, watch_thread, lock, caller, poller, torn,
                   rootMounts, dstFiles, dstDirs, bindMounts>>

\* fs::remove_file(path)
ScanRemove(path) ==
    /\ path \in ScanPaths(ScanEntry.source_mount_point)
    /\ path \in DOMAIN srcFiles
    /\ srcFiles' = Restrict(srcFiles, (DOMAIN srcFiles) \ {path})
    /\ hist.env < ScanMaxEnv
    /\ hist' = [hist EXCEPT !.env = @ + 1,
                            !.since = IF @ = "changed" THEN @ ELSE "removed"]
    /\ ev' = NoEv
    /\ UNCHANGED <<sandbox_storages, watch_thread, lock, caller, poller, torn,
                   rootMounts, dstFiles, dstDirs, bindMounts>>

\* for i in 1..k { fs::write(src.join(i), "original") }: the files of the
\* directory that are not there yet, up to the k-th
ScanFill(k) ==
    /\ ScanEntry.source_mount_point[2] \in DirDescs
    /\ \E new \in {{ScanEntry.source_mount_point \o <<f>> : f \in 1..k} \ DOMAIN srcFiles} :
          /\ new # {}
          /\ srcFiles' = [p \in new |-> [mt |-> 0, sz |-> 1, data |-> 1]] @@ srcFiles
    /\ hist.env < ScanMaxEnv
    /\ hist' = [hist EXCEPT !.env = @ + 1, !.since = "changed", !.written = TRUE]
    /\ ev' = NoEv
    /\ UNCHANGED <<sandbox_storages, watch_thread, lock, caller, poller, torn,
                   rootMounts, dstFiles, dstDirs, bindMounts>>

\* the files of the directory beyond the second are removed
ScanTrim ==
    /\ ScanEntry.source_mount_point[2] \in DirDescs
    /\ \E old \in {{p \in Below(srcFiles, ScanEntry.source_mount_point) :
                       p \notin ScanPaths(ScanEntry.source_mount_point)}} :
          /\ old # {}
          /\ srcFiles' = Restrict(srcFiles, (DOMAIN srcFiles) \ old)
    /\ hist.env < ScanMaxEnv
    /\ hist' = [hist EXCEPT !.env = @ + 1,
                            !.since = IF @ = "changed" THEN @ ELSE "removed"]
    /\ ev' = NoEv
    /\ UNCHANGED <<sandbox_storages, watch_thread, lock, caller, poller, torn,
                   rootMounts, dstFiles, dstDirs, bindMounts>>

ScanNext ==
    \/ \E fault \in ScanFaults : ScanCheck(fault)
    \/ \E path \in ScanWritable,
          mt \in 0..ScanMaxMtime, sz \in WriteSizes, data \in 1..ScanMaxData :
          ScanWrite(path, mt, sz, data)
    \/ \E path \in ScanWritable :
          ScanRemove(path)
    \/ \E k \in ScanCounts : ScanFill(k)
    \/ ScanTrim

ScanSpec == ScanInit /\ [][ScanNext]_vars

\* C15: a scan that was aborted heals with the next scan that succeeds.  In
\* a run in which the world has written no file after the entry was made
\* and no copy has failed, whatever scans were aborted before (by a failing
\* query of the walk, or by a threshold whose bind mount failed), after a
\* scan that succeeded every file of the source has an up-to-date copy in
\* the target.
C15_AsStated ==
    (/\ ev.op = "check" /\ ev.scan = "Ok"
     /\ ~hist.written /\ ~hist.copyfail)
        => \A p \in Below(srcFiles, ScanEntry.source_mount_point) :
              Mirrored(ScanEntry, p, srcFiles, dstFiles)

\* the total length of the files in S
RECURSIVE SumSizes(_, _)
SumSizes(sf, S) ==
    IF S = {} THEN 0
    ELSE Only({sf[p].sz + SumSizes(sf, rest) : p \in {Only(S)}, rest \in {S \ {Only(S)}}})

\* the recorded paths of entry e that still exist
Retained(e, sf) == {p \in DOMAIN e.watched_files : exists(sf, p)}

Max(a, b) == IF a >= b THEN a ELSE b

\* C16: the count threshold.  A pass whose walk meets no I/O error fails
\* with TooManyFiles exactly when the files recorded and the files of the
\* source are more than MAX_ENTRIES_PER_STORAGE together (no single file
\* being too large); a fresh entry over at most 16 files that fit the size
\* limit, 16 included, scans with success and returns their number; and
\* the scan fails at the file whose recording exceeds the limit: it leaves
\* one recorded path more than the limit (or than it retained), not all
\* the files of the source.
C16_CountBoundary ==
    [][ev'.op = "check" =>
          \E e \in {ScanEntry} :
          \E files \in {Below(srcFiles, e.source_mount_point)} :
          \E known \in {Retained(e, srcFiles)} :
          \E total \in {SumSizes(srcFiles, files)} :
             /\ Cardinality(known \cup files) <= MAX_ENTRIES_PER_STORAGE
                   => ev'.scan # "MountTooManyFiles"
             /\ (/\ Cardinality(known \cup files) > MAX_ENTRIES_PER_STORAGE
                 /\ \A p \in files : srcFiles[p].sz <= MAX_SIZE_PER_WATCHABLE_MOUNT
                 /\ ev'.scan # "Other")
                   => ev'.scan = "MountTooManyFiles"
             /\ (/\ e.watched_files = EmptyMap
                 /\ Cardinality(files) <= MAX_ENTRIES_PER_STORAGE
                 /\ total <= MAX_SIZE_PER_WATCHABLE_MOUNT
                 /\ ev'.scan # "Other")
                   => (ev'.scan = "Ok" /\ ev'.n = Cardinality(files))
             /\ ev'.scan = "MountTooManyFiles"
                   => /\ Cardinality(DOMAIN ScanEntry'.watched_files)
                            > MAX_ENTRIES_PER_STORAGE
                      /\ Cardinality(DOMAIN ScanEntry'.watched_files)
                            <= Max(Cardinality(known), MAX_ENTRIES_PER_STORAGE) + 1]_vars

\* a scan over a directory of 16 new files has returned 16
C16_Witness ==
    /\ ev.op = "check" /\ ev.scan = "Ok"
    /\ ev.n = MAX_ENTRIES_PER_STORAGE
    /\ Cardinality(Below(srcFiles, ScanEntry.source_mount_point))
          = MAX_ENTRIES_PER_STORAGE
    /\ hist.env = 0

\* C17: the size threshold.  A pass fails with TooLarge only when the files
\* of the source are longer than MAX_SIZE_PER_WATCHABLE_MOUNT together, and
\* it does fail with TooLarge when they are (the walk meeting no I/O error
\* and the count staying within its limit), be it one file too long or
\* several files each within the limit; a total of at most the limit,
\* the limit itself included, is accepted and the entry keeps watching.
C17_SizeBoundary ==
    [][ev'.op = "check" =>
          \E e \in {ScanEntry} :
          \E files \in {Below(srcFiles, e.source_mount_point)} :
          \E known \in {Retained(e, srcFiles)} :
          \E total \in {SumSizes(srcFiles, files)} :
             /\ ev'.scan = "MountTooLarge" => total > MAX_SIZE_PER_WATCHABLE_MOUNT
             /\ (/\ total > MAX_SIZE_PER_WATCHABLE_MOUNT
                 /\ Cardinality(known \cup files) <= MAX_ENTRIES_PER_STORAGE
                 /\ ev'.scan # "Other")
                   => ev'.scan = "MountTooLarge"
             /\ (/\ total <= MAX_SIZE_PER_WATCHABLE_MOUNT
                 /\ Cardinality(known \cup files) <= MAX_ENTRIES_PER_STORAGE)
                   => (ev'.scan \in {"Ok", "Other"} /\ ScanEntry'.watch)]_vars

\* a scan over two files, each within the limit, one byte too long together,
\* has failed with TooLarge
C17_Witness ==
    /\ ev.op = "check" /\ ev.scan = "MountTooLarge"
    /\ \E files \in {Below(srcFiles, ScanEntry.source_mount_point)} :
          /\ Cardinality(files) = 2
          /\ \A p \in files : srcFiles[p].sz < MAX_SIZE_PER_WATCHABLE_MOUNT
          /\ SumSizes(srcFiles, files) = MAX_SIZE_PER_WATCHABLE_MOUNT + 1
    /\ hist.env = 0

\* what C18 asks of a pass over a source that has not changed: nothing is
\* marked, the target side is left as it is, and so is watched_files
Untouched ==
    /\ ev'.n = 0
    /\ dstFiles' = dstFiles
    /\ dstDirs' = dstDirs
    /\ bindMounts' = bindMounts
    /\ ScanEntry'.watched_files = ScanEntry.watched_files

\* C18: scan is idempotent after a scan that succeeded.  When the entry's
\* last scan returned Ok and the source has not changed since, the next
\* scan marks and copies nothing, writes nothing on the target and leaves
\* watched_files as it is; it returns Ok(0) unless a query of its own walk
\* fails.
C18_IdempotentAfterOk ==
    [][(ev'.op = "check" /\ hist.last = "Ok" /\ hist.since = "clean")
          => (Untouched /\ ev'.scan \in {"Ok", "Other"})]_vars

\* a second scan over an unchanged source of two files, both mirrored, has
\* returned 0
C18_Witness ==
    /\ ev.op = "check" /\ ev.scan = "Ok" /\ ev.n = 0
    /\ hist.env = 0
    /\ Cardinality(DOMAIN ScanEntry.watched_files) = 2
    /\ DOMAIN ScanEntry.watched_files = Below(srcFiles, ScanEntry.source_mount_point)
    /\ \A p \in DOMAIN ScanEntry.watched_files :
          Mirrored(ScanEntry, p, srcFiles, dstFiles)

\* C18 as stated: whatever became of the entry's last scan, when the source
\* has not changed since, the next scan marks and copies nothing, writes
\* nothing on the target and leaves watched_files as it is, and it returns
\* Ok(0) unless a query of its own walk fails.
C18_AsStated ==
    [][(ev'.op = "check" /\ hist.last # "none" /\ hist.since = "clean")
          => (Untouched /\ ev'.scan \in {"Ok", "Other"})]_vars

\* C19: deletion propagates.  When the entry's last scan returned Ok and
\* the world has only removed files of the source since, the next scan
\* drops every recorded path that no longer exists from watched_files,
\* removes its copy from the target, and, when it returns Ok, returns 0;
\* the watched unit may be a directory or a single file.
C19_AsStated ==
    [][(ev'.op = "check" /\ hist.last = "Ok" /\ hist.since = "removed")
          => /\ \A p \in DOMAIN ScanEntry.watched_files :
                   ~exists(srcFiles, p)
                      => /\ p \notin DOMAIN ScanEntry'.watched_files
                         /\ Mirror(ScanEntry, p) \notin DOMAIN dstFiles'
             /\ ev'.scan = "Ok" => ev'.n = 0]_vars

\* C20: in every reachable state an entry that is watching has at most
\* MAX_ENTRIES_PER_STORAGE paths in watched_files, the states after a scan
\* that failed with TooManyFiles and a bind mount that failed included.
C20_AsStated ==
    \A c \in Registered : \A j \in 1..Len(sandbox_storages[c]) :
       sandbox_storages[c][j].watch
          => Cardinality(DOMAIN sandbox_storages[c][j].watched_files)
                <= MAX_ENTRIES_PER_STORAGE

\* C21: one call of check() scans every entry of the set that was watching
\* when the call began, whatever became of the entries before it in that
\* call: when check() returns, be it with an error, no watching entry
\* behind the one it scanned last is left unscanned.
C21_AsStated ==
    [][/\ (ev'.op = "check" /\ ev'.ret = "Err")
             => Pending(sandbox_storages'[ev'.cid], ev'.idx + 1) = {}
       /\ ev'.op = "add_return"
             => Pending(sandbox_storages'[ev'.cid], 1) \subseteq
                   {p.idx : p \in Range(ev'.log)}]_vars

\* the registered entries that are no longer watched, as (container, place)
Unwatched ==
    {x \in Registered \X (1..(2 * Cardinality(Descs) * MaxCalls)) :
        /\ x[2] <= Len(sandbox_storages[x[1]])
        /\ ~sandbox_storages[x[1]][x[2]].watch}

\* C22: an entry that is not watched is left alone by every pass of check(),
\* on behalf of add_container and on behalf of the poller: the pass is never
\* over that entry, the entry keeps its fields (watched_files included),
\* nothing at or below its target is written, created or deleted, and no
\* bind mount is added to its target.
C22_UnwatchedUntouched ==
    [][ev'.op = "check" =>
          /\ <<ev'.cid, ev'.idx>> \notin Unwatched
          /\ \A x \in Unwatched :
                /\ sandbox_storages'[x[1]][x[2]] = sandbox_storages[x[1]][x[2]]
                /\ Subtree(sandbox_storages[x[1]][x[2]].target_mount_point)' =
                      Subtree(sandbox_storages[x[1]][x[2]].target_mount_point)]_vars

\* the poller's check() has passed over the second entry of a set whose first
\* entry is bind-mounted and not watched
C22_Witness ==
    /\ ev.op = "check" /\ ev.who = "poller" /\ ev.idx = 2
    /\ ~sandbox_storages[ev.cid][1].watch
    /\ bindMounts[sandbox_storages[ev.cid][1].target_mount_point] = 1
    /\ sandbox_storages[ev.cid][2].watch

\* the files of the entry's source that the rule of the claim marks: the
\* ones watched_files does not hold yet and the ones whose modification
\* time is strictly newer than the recorded one
Changed(e, sf) ==
    {p \in Below(sf, e.source_mount_point) :
        p \notin DOMAIN e.watched_files \/ sf[p].mt > e.watched_files[p]}

\* C23: change detection.  In a scan that returns Ok the number returned is
\* the number of files that are new to watched_files or strictly newer than
\* recorded; these files, and no other file of the source, are copied (a
\* file that is not marked keeps the copy it had, or none); and
\* watched_files then holds, for every file walked, the time observed, be
\* it newer, equal or older than the one recorded.
C23_ChangeDetection ==
    [][(ev'.op = "check" /\ ev'.scan = "Ok") =>
          /\ ev'.n = Cardinality(Changed(ScanEntry, srcFiles))
          /\ ScanEntry'.watched_files =
                [p \in Below(srcFiles, ScanEntry.source_mount_point) |-> srcFiles[p].mt]
          /\ \A p \in Below(srcFiles, ScanEntry.source_mount_point) :
                IF p \in Changed(ScanEntry, srcFiles)
                THEN ev'.copied = ev'.n => Mirrored(ScanEntry, p, srcFiles, dstFiles')
                ELSE Restrict(dstFiles', {Mirror(ScanEntry, p)}) =
                        Restrict(dstFiles, {Mirror(ScanEntry, p)})]_vars

\* a tree of two files was scanned, the world has written one of them with
\* a newer time and nothing else, and the rescan has returned 1 and copied
\* that file
C23_Witness ==
    /\ ev.op = "check" /\ ev.scan = "Ok" /\ ev.n = 1 /\ ev.copied = 1
    /\ hist.env = 1 /\ hist.last = "Ok"
    /\ Cardinality(DOMAIN ScanEntry.watched_files) = 2
    /\ \E p \in DOMAIN ScanEntry.watched_files : ScanEntry.watched_files[p] = 1
    /\ \E p \in DOMAIN ScanEntry.watched_files : ScanEntry.watched_files[p] = 0
    /\ \A p \in DOMAIN ScanEntry.watched_files :
          Mirrored(ScanEntry, p, srcFiles, dstFiles)

\* C24: a copy that fails does not abort the scan.  When a scan returns Ok
\* and the copy of one of its marked files has failed, every other marked
\* file has its up-to-date copy in the target, and check() does no
\* fallback for the entry: it creates no target, mounts nothing, leaves the
\* entry watching and returns Ok.
C24_CopyFailureIsLocal ==
    [][(ev'.op = "check" /\ ev'.scan = "Ok" /\ ev'.copied < ev'.n) =>
          /\ ev'.copied = ev'.n - 1
          /\ \E b \in Changed(ScanEntry, srcFiles) :
                \A p \in Changed(ScanEntry, srcFiles) \ {b} :
                   Mirrored(ScanEntry, p, srcFiles, dstFiles')
          /\ ev'.create = "none" /\ ev'.mount = "none" /\ ev'.ret = "Ok"
          /\ bindMounts' = bindMounts
          /\ ScanEntry'.watch]_vars

\* a scan has marked the two files of a tree, the copy of one has failed,
\* the other file is mirrored and the entry is watching
C24_Witness ==
    /\ ev.op = "check" /\ ev.scan = "Ok" /\ ev.n = 2 /\ ev.copied = 1
    /\ ScanEntry.watch
    /\ \E p \in Below(srcFiles, ScanEntry.source_mount_point) :
          /\ Mirrored(ScanEntry, p, srcFiles, dstFiles)
          /\ \E q \in Below(srcFiles, ScanEntry.source_mount_point) :
                Mirror(ScanEntry, q) \notin DOMAIN dstFiles

\* C25: a scan that fails with an error that is no threshold error brings
\* no fallback.  check() creates no target path and mounts nothing, the
\* entry stays watching, so the next check() scans it again, and check()
\* returns Ok.
C25_OtherFailureNoFallback ==
    [][(ev'.op = "check" /\ ev'.scan \notin ThresholdErrors \cup {"Ok"}) =>
          /\ ev'.create = "none" /\ ev'.mount = "none" /\ ev'.ret = "Ok"
          /\ bindMounts' = bindMounts
          /\ dstDirs' = dstDirs
          /\ DOMAIN dstFiles' \subseteq DOMAIN dstFiles
          /\ Filter(sandbox_storages'[ev'.cid][ev'.idx])
          /\ ev'.idx \in Pending(sandbox_storages'[ev'.cid], 1)]_vars

\* the walk of a directory whose target does not hold every file yet has
\* failed at a query after its first, nothing is mounted and the entry is
\* watching
C25_Witness ==
    /\ ev.op = "check" /\ ev.scan = "Other" /\ ev.ret = "Ok"
    /\ ScanEntry.watch
    /\ ScanEntry.watched_files # EmptyMap
    /\ bindMounts[ScanEntry.target_mount_point] = 0
    /\ \E p \in Below(srcFiles, ScanEntry.source_mount_point) :
          ~Mirrored(ScanEntry, p, srcFiles, dstFiles)

LockFairness ==
    /\ WF_vars(\E fault \in Faults : PollCheckEntry(fault))
    /\ WF_vars(PollCheckDone)
    /\ WF_vars(PollEnd)
    /\ WF_vars(PollerReap)
    /\ SF_vars(\E failAt \in 0..Cardinality(Descs) : AddLocked(failAt))
    /\ WF_vars(\E fault \in Faults : AddCheckEntry(fault))
    /\ WF_vars(AddReturn)
    /\ SF_vars(RemoveLocked)

LockNext ==
    \/ \E id \in LiveCids, mounts \in Lists(Descs) : AddBootstrap(id, mounts)
    \/ \E id \in LiveCids, mounts \in Lists(Descs) : AddBootstrapFails(id, mounts)
    \/ \E id \in LiveCids, mounts \in Lists(Descs) : AddStart(id, mounts)
    \/ \E failAt \in 0..Cardinality(Descs) : AddLocked(failAt)
    \/ \E fault \in Faults : AddCheckEntry(fault)
    \/ AddReturn
    \/ \E id \in LiveCids : RemoveStart(id)
    \/ RemoveLocked
    \/ \E order \in Orders(LiveCids) : PollBegin(order)
    \/ \E fault \in Faults : PollCheckEntry(fault)
    \/ PollCheckDone
    \/ PollEnd
    \/ PollerReap
    \/ Cleanup
    \/ \E order \in Orders(LiveCids) : RegistryDrop(order)

LockSpec == Init /\ [][LockNext]_vars /\ LockFairness

\* a call of add_container or remove_container waits for the registry lock
Waiting == caller.pc \in {"add_lock", "rm_lock"}

Touches(d) ==
    \/ \E q \in DOMAIN dstFiles' :
          /\ IsPrefix(TargetPath(d), q)
          /\ q \in DOMAIN dstFiles => dstFiles'[q] # dstFiles[q]
    \/ \E q \in dstDirs' \ dstDirs : IsPrefix(TargetPath(d), q)
    \/ bindMounts'[TargetPath(d)] > bindMounts[TargetPath(d)]

\* C28: a container that was removed is out of the poller's reach.  When
\* remove_container returns no tick is in flight (a tick that was, has
\* ended), a pass of the poller's check() is always over an entry of a
\* container that is registered, and whoever writes at or below a target,
\* or mounts on it, does so for an entry that is registered then: the
\* target of a removed container is not made again.
C28_RemovedIsOutOfReach ==
    [][/\ ev'.op = "remove" => (lock' # "poller" /\ poller'.pc # "check")
       /\ (ev'.op = "check" /\ ev'.who = "poller")
             => (ev'.cid \in Registered /\ ev'.cid \in DOMAIN sandbox_storages')
       /\ \A d \in Descs : Touches(d) => TargetPath(d) \in LiveTargets']_vars

\* a tick runs after the only container, that held a copied file, was
\* removed: the registry is empty and the copy is still in its place
C28_Witness ==
    /\ poller.pc = "check" /\ lock = "poller" /\ ~torn
    /\ caller.pc = "idle" /\ hist.calls = 2
    /\ Registered = {}
    /\ \E d \in Descs : TargetPath(d) \in DOMAIN dstFiles

\* C29 as stated: registration is atomic on failure.  When add_container
\* returns an error the registry holds what it held when the call took the
\* lock: the set of the id has the entries it had before, none made from
\* the descriptors of the failed call, and an id that was not known is not
\* registered.
C29_AsStated ==
    [][ev'.call = "Err" =>
          IF caller.pc = "add_check"
          THEN /\ Count(sandbox_storages', caller.id) = caller.base
               /\ caller.base = 0 => caller.id \notin DOMAIN sandbox_storages'
          ELSE sandbox_storages' = sandbox_storages]_vars

\* C30 as stated: a file whose copy failed is marked again.  When a scan
\* that returned Ok has failed to copy some of the files it marked and the
\* next scan of the entry follows with no change of the source in between,
\* that scan, when it returns Ok, marks at least the files whose copy
\* failed.
C30_AsStated ==
    [][(/\ ev.op = "check" /\ ev.scan = "Ok" /\ ev.copied < ev.n
        /\ ev'.op = "check" /\ ev'.scan = "Ok")
          => ev'.n >= ev.n - ev.copied]_vars

====
